---- MODULE Spec2Model ----
(***************************************************************************)
(* typedparser: argument schemas declared as annotated classes, a parser   *)
(* built from them on top of an argparse engine, and the reconciliation of *)
(* the engine's loosely-typed record with the declared field types.        *)
(*                                                                         *)
(* The package's implementation modules (_typedparser, funcs, _typedattr)  *)
(* are imported by src/src/typedparser/__init__.py but are not among the   *)
(* files under src/.  What the test-suite pins down is modelled from the   *)
(* tests; the rest of the reconciliation pass is modelled from spec.md     *)
(* section 4.4.                                                            *)
(***************************************************************************)
EXTENDS Integers, Sequences, FiniteSets, TLC

VARIABLES schema, shape, engine, inputs, args, parser, out

vars == <<schema, shape, engine, inputs, args, parser, out>>

(***************************************************************************)
(* Bounds                                                                  *)
(***************************************************************************)
MaxTokens == 2

(***************************************************************************)
(* Values of the loosely-typed record.  Every value is a record of the     *)
(* same shape: k is the runtime kind, n the payload of a bool (0/1) or an  *)
(* int, s the payload of a str, items the elements of a list.              *)
(***************************************************************************)
NoneV == [k |-> "none", n |-> 0, s |-> "", items |-> <<>>]

BoolV(b) == [k |-> "bool", n |-> IF b THEN 1 ELSE 0, s |-> "", items |-> <<>>]

IntV(i) == [k |-> "int", n |-> i, s |-> "", items |-> <<>>]

StrV(w) == [k |-> "str", n |-> 0, s |-> w, items |-> <<>>]

ListV(xs) == [k |-> "list", n |-> 0, s |-> "", items |-> xs]

(***************************************************************************)
(* TypeExpr: Primitive(kind), Optional(T), Sequence(T), Untyped.           *)
(* opt: wrapped in Optional; seq: a Sequence of kind; kind "untyped": the  *)
(* field carries no annotation.                                            *)
(***************************************************************************)
Prim(kind) == [opt |-> FALSE, seq |-> FALSE, kind |-> kind]

Opt(t) == [t EXCEPT !.opt = TRUE]

SeqOf(kind) == [opt |-> FALSE, seq |-> TRUE, kind |-> kind]

Untyped == [opt |-> FALSE, seq |-> FALSE, kind |-> "untyped"]

(***************************************************************************)
(* Command-line tokens.  d is the number of leading dashes, w the rest:    *)
(* "--foo" is [d |-> 2, w |-> "foo"], "12" is [d |-> 0, w |-> "12"].       *)
(***************************************************************************)
Flag(w) == [d |-> 2, w |-> w]

Word(w) == [d |-> 0, w |-> w]

NoTok == [d |-> 0, w |-> ""]

(***************************************************************************)
(* add_argument: the Argument Descriptor a field carries as its default.   *)
(* names are the flag_names given, dest the explicit destination ("" when  *)
(* none), nargs "" or "+", dflt the default value, conv the type converter *)
(* ("none", "int", "str").                                                 *)
(***************************************************************************)
add_argument(names, dest, nargs, dflt, conv) ==
    [names |-> names, dest |-> dest, nargs |-> nargs, dflt |-> dflt, conv |-> conv]

NoDesc == add_argument(<<>>, "", "", NoneV, "none")

\* A field's default: an Argument Descriptor (arg) or a plain value.
ArgDefault(desc) == [arg |-> TRUE, v |-> desc.dflt, d |-> desc]

PlainDefault(v) == [arg |-> FALSE, v |-> v, d |-> NoDesc]

\* Field Record: name, declared type, default.
Field(name, type, dflt) == [name |-> name, type |-> type, dflt |-> dflt]

(***************************************************************************)
(* The field declarations of the test-suite's schema classes, for a field  *)
(* called name.                                                            *)
(***************************************************************************)
\* str_arg: str = add_argument(default="some_value", type=str)
StrArg(name) == Field(name, Prim("str"), ArgDefault(add_argument(<<>>, "", "", StrV("a"), "str")))

\* opt_str_arg: Optional[str] = add_argument(default=None, type=str)
OptStrArg(name) == Field(name, Opt(Prim("str")), ArgDefault(add_argument(<<>>, "", "", NoneV, "str")))

\* pos_arg: int = add_argument("pos_arg", type=int)
PosArg(name) == Field(name, Prim("int"), ArgDefault(add_argument(<<Word(name)>>, "", "", NoneV, "int")))

\* opt_str_arg: str = add_argument(default=None, type=str)
NoneStrArg(name) == Field(name, Prim("str"), ArgDefault(add_argument(<<>>, "", "", NoneV, "str")))

\* opt_str_arg = add_argument(default="content", type=str)
UntypedArg(name) == Field(name, Untyped, ArgDefault(add_argument(<<>>, "", "", StrV("a"), "str")))

\* foo: Optional[List[str]] = add_argument(nargs="+")
NargsArg(name) == Field(name, Opt(SeqOf("str")), ArgDefault(add_argument(<<>>, "", "+", NoneV, "none")))

\* bar: str = add_argument("--foo", dest="bar", default="b")
DestArg(name) == Field(name, Prim("str"), ArgDefault(add_argument(<<Flag("foo")>>, name, "", StrV("b"), "none")))

\* foo: bool = None
PlainBool(name) == Field(name, Prim("bool"), PlainDefault(NoneV))

\* bar: int = None
PlainInt(name) == Field(name, Prim("int"), PlainDefault(NoneV))

\* bar: Optional[int] = None
PlainOptInt(name) == Field(name, Opt(Prim("int")), PlainDefault(NoneV))

\* baz: Optional[str] = None
PlainOptStr(name) == Field(name, Opt(Prim("str")), PlainDefault(NoneV))

(***************************************************************************)
(* The token-parsing engine (argparse).  A slot: its destination, whether  *)
(* it is positional, its flag (optional slots), action, converter,         *)
(* default, nargs, choices ({} when unrestricted) and the subcommand it    *)
(* belongs to ("" for the top level).                                      *)
(***************************************************************************)
Slot(dest, pos, flag, action, conv, dflt, nargs, choices, sub) ==
    [dest |-> dest, pos |-> pos, flag |-> flag, action |-> action, conv |-> conv,
     dflt |-> dflt, nargs |-> nargs, choices |-> choices, sub |-> sub]

\* argparse.ArgumentParser(): no slots, no subcommands.
Fresh == [slots |-> <<>>, subs |-> {}]

\* parser with the mutually exclusive --foo (store_true) and --bar (store_false).
Mutex ==
    [slots |-> << Slot("foo", FALSE, Flag("foo"), "store_true", "none", BoolV(FALSE), "", {}, ""),
                  Slot("bar", FALSE, Flag("bar"), "store_false", "none", BoolV(TRUE), "", {}, "") >>,
     subs |-> {}]

\* parser with --foo (store_true), subcommand a (positional bar, type=int)
\* and subcommand b (--baz with choices XYZ).
Subcmd ==
    [slots |-> << Slot("foo", FALSE, Flag("foo"), "store_true", "none", BoolV(FALSE), "", {}, ""),
                  Slot("bar", TRUE, NoTok, "store", "int", IntV(11), "", {}, "a"),
                  Slot("baz", FALSE, Flag("baz"), "store", "none", NoneV, "", {"X", "Y", "Z"}, "b") >>,
     subs |-> {"a", "b"}]

\* The words int() accepts, with their values.
IntWords == {"1"}

IntOf(w) == CASE w = "1" -> 1

\* A slot's converter applied to a word: [ok, v].
Convert(slot, w) ==
    IF slot.choices # {} /\ w \notin slot.choices THEN [ok |-> FALSE, v |-> NoneV]
    ELSE IF slot.conv = "int"
         THEN IF w \in IntWords THEN [ok |-> TRUE, v |-> IntV(IntOf(w))]
              ELSE [ok |-> FALSE, v |-> NoneV]
         ELSE [ok |-> TRUE, v |-> StrV(w)]

\* rec with name bound to v.
Put(rec, name, v) == [n \in DOMAIN rec \cup {name} |-> IF n = name THEN v ELSE rec[n]]

EmptyRec == [n \in {} |-> NoneV]

\* The slots of one scope, in registration order.
RECURSIVE SlotsOf(_, _, _)
SlotsOf(slots, sub, pos) ==
    IF slots = <<>> THEN <<>>
    ELSE IF Head(slots).sub = sub /\ Head(slots).pos = pos
         THEN <<Head(slots)>> \o SlotsOf(Tail(slots), sub, pos)
         ELSE SlotsOf(Tail(slots), sub, pos)

\* The record holding the defaults of a scope's optional slots.
RECURSIVE WithDefaults(_, _)
WithDefaults(rec, opts) ==
    IF opts = <<>> THEN rec
    ELSE WithDefaults(Put(rec, Head(opts).dest, Head(opts).dflt), Tail(opts))

\* The words (tokens without dashes) that follow position i.
RECURSIVE WordsFrom(_, _)
WordsFrom(tokens, i) ==
    IF i > Len(tokens) \/ tokens[i].d > 0 THEN <<>>
    ELSE <<tokens[i].w>> \o WordsFrom(tokens, i + 1)

\* Each word converted by the slot: [ok, v] with v the list of the values.
RECURSIVE ConvertAll(_, _)
ConvertAll(slot, ws) ==
    IF ws = <<>> THEN [ok |-> TRUE, v |-> <<>>]
    ELSE LET c == Convert(slot, Head(ws))
             r == ConvertAll(slot, Tail(ws))
         IN [ok |-> c.ok /\ r.ok, v |-> IF c.ok /\ r.ok THEN <<c.v>> \o r.v ELSE <<>>]

\* parse(tokens) from position i on; st holds the record so far, the selected
\* subcommand and the positional slots still to fill.  [ok, rec].
RECURSIVE Scan(_, _, _, _)
Scan(eng, tokens, i, st) ==
    IF i > Len(tokens) THEN [ok |-> st.pend = <<>>, rec |-> st.rec]
    ELSE LET tok == tokens[i]
             bad == [ok |-> FALSE, rec |-> st.rec]
         IN IF tok.d > 0
            THEN LET opts == SlotsOf(eng.slots, st.sub, FALSE)
                     hit == {j \in 1..Len(opts) : opts[j].flag = tok}
                 IN IF hit = {} THEN bad
                    ELSE LET slot == opts[CHOOSE j \in hit : TRUE]
                         IN CASE slot.action = "store_true" ->
                                   Scan(eng, tokens, i + 1, [st EXCEPT !.rec = Put(st.rec, slot.dest, BoolV(TRUE))])
                              [] slot.action = "store_false" ->
                                   Scan(eng, tokens, i + 1, [st EXCEPT !.rec = Put(st.rec, slot.dest, BoolV(FALSE))])
                              [] slot.action = "store" /\ slot.nargs = "+" ->
                                   LET ws == WordsFrom(tokens, i + 1)
                                       c == ConvertAll(slot, ws)
                                   IN IF ws = <<>> \/ ~c.ok THEN bad
                                      ELSE Scan(eng, tokens, i + 1 + Len(ws),
                                                [st EXCEPT !.rec = Put(st.rec, slot.dest, ListV(c.v))])
                              [] OTHER ->
                                   IF i + 1 > Len(tokens) \/ tokens[i + 1].d > 0 THEN bad
                                   ELSE LET c == Convert(slot, tokens[i + 1].w)
                                        IN IF ~c.ok THEN bad
                                           ELSE Scan(eng, tokens, i + 2,
                                                     [st EXCEPT !.rec = Put(st.rec, slot.dest, c.v)])
            ELSE IF st.pend # <<>>
                 THEN LET c == Convert(Head(st.pend), tok.w)
                      IN IF ~c.ok THEN bad
                         ELSE Scan(eng, tokens, i + 1,
                                   [st EXCEPT !.rec = Put(st.rec, Head(st.pend).dest, c.v),
                                              !.pend = Tail(st.pend)])
                 ELSE IF st.sub = "" /\ tok.w \in eng.subs
                      THEN Scan(eng, tokens, i + 1,
                                [rec |-> WithDefaults(st.rec, SlotsOf(eng.slots, tok.w, FALSE)),
                                 sub |-> tok.w,
                                 pend |-> SlotsOf(eng.slots, tok.w, TRUE)])
                      ELSE bad

\* engine.parse_args(tokens): the loosely-typed record, or ok = FALSE when
\* the engine rejects the tokens.
EngineParse(eng, tokens) ==
    Scan(eng, tokens, 1,
         [rec |-> WithDefaults(EmptyRec, SlotsOf(eng.slots, "", FALSE)),
          sub |-> "",
          pend |-> SlotsOf(eng.slots, "", TRUE)])

(***************************************************************************)
(* Parser Builder: TypedParser(engine, schema_class, strict) registers one *)
(* slot per field whose default is an Argument Descriptor.                 *)
(***************************************************************************)
\* Mutant: a descriptor without names registered as positional.
IsPositional_Nameless(desc) == desc.names = <<>> \/ desc.names[1].d = 0

\* A descriptor is registered as positional only when a name without
\* leading dashes is given; with no names at all the slot is the optional
\* --<field name> (the tests pass "--str_arg some_other_value" for
\* str_arg = add_argument(default=..., type=str)).
IsPositional(desc) == desc.names # <<>> /\ desc.names[1].d = 0

SlotFlag(f) ==
    IF IsPositional(f.dflt.d) THEN NoTok
    ELSE IF f.dflt.d.names = <<>> THEN Flag(f.name) ELSE f.dflt.d.names[1]

SlotDest(f) ==
    IF f.dflt.d.names = <<>> THEN (IF f.dflt.d.dest # "" THEN f.dflt.d.dest ELSE f.name)
    ELSE IF IsPositional(f.dflt.d) THEN f.dflt.d.names[1].w
    ELSE IF f.dflt.d.dest # "" THEN f.dflt.d.dest
    ELSE f.dflt.d.names[1].w

SlotFor(f) ==
    Slot(SlotDest(f), IsPositional(f.dflt.d), SlotFlag(f), "store", f.dflt.d.conv,
         f.dflt.d.dflt, f.dflt.d.nargs, {}, "")

\* The engine rejects an option string that a top-level slot already has.
Conflicts(slots, slot) ==
    /\ ~slot.pos
    /\ \E j \in 1..Len(slots) : ~slots[j].pos /\ slots[j].sub = "" /\ slots[j].flag = slot.flag

\* _add_arguments_from_class: [ok, eng], fields taken in declaration order.
RECURSIVE AddArguments(_, _)
AddArguments(eng, fields) ==
    IF fields = <<>> THEN [ok |-> TRUE, eng |-> eng]
    ELSE IF ~Head(fields).dflt.arg THEN AddArguments(eng, Tail(fields))
    ELSE IF Conflicts(eng.slots, SlotFor(Head(fields))) THEN [ok |-> FALSE, eng |-> eng]
    ELSE AddArguments([eng EXCEPT !.slots = Append(@, SlotFor(Head(fields)))], Tail(fields))

(***************************************************************************)
(* Type Reconciliation Pass.                                               *)
(***************************************************************************)
\* Mutant: the kinds compared for equality, a bool no longer an int.
KindMatches_Exact(vk, tk) == vk = tk

\* A value of runtime kind vk is accepted for a declared primitive kind tk.
\* A bool is accepted where int is declared: the strict parse of
\* bar: int with the engine's False succeeds and keeps False.
KindMatches(vk, tk) == vk = tk \/ (vk = "bool" /\ tk = "int")

\* v (not None) conforms to the declared type t.
Conforms(v, t) ==
    IF t.seq
    THEN v.k = "list" /\ \A j \in 1..Len(v.items) : KindMatches(v.items[j].k, t.kind)
    ELSE KindMatches(v.k, t.kind)

\* Mutants of the conditions below.
\* The strict mode rejecting every absent field.
OnMissing_Strict(strict, f) == IF strict THEN {"AttributeError"} ELSE {""}

\* No mode objecting to a field without annotation.
OnUntyped_Never(strict) == {""}

\* No mode objecting to None for a non-Optional type.
OnNoneForBare_Never(strict) == {""}

\* Both modes objecting to None for a non-Optional type.
OnNoneForBare_Always(strict) == {"TypeError"}

\* The non-strict mode letting a mismatched value through.
OnMismatch_StrictOnly(strict) == IF strict THEN {"TypeError"} ELSE {""}

\* An open-shape class taking any extra entry, in strict mode too.
OnExtra_ClosedOnly(strict, shp) ==
    IF shp = "open" THEN {""}
    ELSE IF strict THEN {"KeyError"} ELSE {"AttributeError"}

\* The non-strict mode never objecting to an extra entry.
OnExtra_StrictOnly(strict, shp) == IF strict THEN {"KeyError"} ELSE {""}

\* What each condition may do to a field: the error kinds it may raise, ""
\* standing for going on without an error.
\* A declared field absent from the record is left at its default: by both
\* modes when it is an Optional field whose default is None (the strict
\* parser over the subcommand engine returns bar = None, baz = None), by
\* the non-strict mode always.  What the strict mode does with an absent
\* field whose default does not fit its type is fixed by no test: any of
\* going on, a TypeError for the default, an AttributeError for the name.
OnMissing(strict, f) ==
    IF strict /\ ~(f.type.kind # "untyped" /\ f.type.opt /\ f.dflt.v = NoneV)
    THEN {"", "TypeError", "AttributeError"}
    ELSE {""}

\* A field with no annotation whose value is there.
OnUntyped(strict) == IF strict THEN {"TypeError"} ELSE {""}

\* None where the declared type is not Optional.
OnNoneForBare(strict) == IF strict THEN {"TypeError"} ELSE {""}

\* A value whose kind does not conform to the declared type.
OnMismatch(strict) == {"TypeError"}

\* An entry of the record that is no declared field, on a closed-shape
\* (slotted) or open-shape class: the error kind, or "" to store it.
OnExtra(strict, shp) ==
    IF strict THEN {"KeyError"}
    ELSE IF shp = "closed" THEN {"AttributeError"} ELSE {""}

FieldNames(sch) == {sch[j].name : j \in 1..Len(sch)}

FieldNamed(sch, name) == sch[CHOOSE j \in 1..Len(sch) : sch[j].name = name]

\* The error kinds field f may raise on the record ("" for none).
FieldError(f, raw, strict) ==
    IF f.name \notin DOMAIN raw THEN OnMissing(strict, f)
    ELSE IF f.type.kind = "untyped" THEN OnUntyped(strict)
    ELSE IF raw[f.name] = NoneV
         THEN IF f.type.opt THEN {""} ELSE OnNoneForBare(strict)
         ELSE IF Conforms(raw[f.name], f.type) THEN {""} ELSE OnMismatch(strict)

\* The value field f gets in the result.
FieldValue(f, raw) == IF f.name \in DOMAIN raw THEN raw[f.name] ELSE f.dflt.v

Extras(raw, sch) == DOMAIN raw \ FieldNames(sch)

\* The checks the record goes through, each with what it may raise.
Checks(raw, sch, strict, shp) ==
    {FieldError(sch[j], raw, strict) : j \in 1..Len(sch)}
       \cup {OnExtra(strict, shp) : n \in Extras(raw, sch)}

\* Every error kind the record may raise; which one surfaces first is the
\* order of the checks, which neither the tests nor the spec fix.
Errors(raw, sch, strict, shp) == UNION Checks(raw, sch, strict, shp) \ {""}

\* Every check may go on without an error.
Passes(raw, sch, strict, shp) == \A c \in Checks(raw, sch, strict, shp) : "" \in c

\* The instance of the schema class built from the record.
Instance(raw, sch) ==
    [n \in FieldNames(sch) \cup Extras(raw, sch) |->
        IF n \in FieldNames(sch) THEN FieldValue(FieldNamed(sch, n), raw) ELSE raw[n]]

Ok(res) == [ok |-> TRUE, err |-> "", res |-> res]

Err(kind) == [ok |-> FALSE, err |-> kind, res |-> EmptyRec]

\* parse_typed_args(raw, schema_class, strict): the outcomes it may end in.
parse_typed_args(raw, sch, strict, shp) ==
    {Err(e) : e \in Errors(raw, sch, strict, shp)}
      \cup (IF Passes(raw, sch, strict, shp) THEN {Ok(Instance(raw, sch))} ELSE {})

\* TypedParser.parse_args(tokens): the engine's parse, then the reconciliation.
parse_args(eng, tokens, sch, strict, shp) ==
    IF ~EngineParse(eng, tokens).ok THEN {Err("SystemExit")}
    ELSE parse_typed_args(EngineParse(eng, tokens).rec, sch, strict, shp)

(***************************************************************************)
(* The schema classes, token sequences and records the parsers are run on. *)
(***************************************************************************)
\* Declarations of a first field foo, a second field bar, a third field baz.
FooDecls ==
    {StrArg("foo"), OptStrArg("foo"), PosArg("foo"), NoneStrArg("foo"), UntypedArg("foo"),
     NargsArg("foo"), PlainBool("foo"), PlainInt("foo"), PlainOptInt("foo"), PlainOptStr("foo")}

BarDecls ==
    {OptStrArg("bar"), PosArg("bar"), DestArg("bar"), PlainInt("bar"), PlainOptInt("bar")}

BazDecls == {PlainOptStr("baz"), PlainInt("baz")}

PlainDecls(decls) == {f \in decls : ~f.dflt.arg}

\* Classes handed to create_parser: one or two fields.
CreateSchemas ==
    {<<f>> : f \in FooDecls} \cup {<<f, g>> : f \in FooDecls, g \in BarDecls}

\* Classes handed to from_parser over an engine built by the caller: the
\* engine's destinations declared as plain fields.
PlainSchemas ==
    {<<f, g>> : f \in PlainDecls(FooDecls), g \in PlainDecls(BarDecls)}
      \cup {<<f, g, h>> : f \in PlainDecls(FooDecls), g \in PlainDecls(BarDecls), h \in BazDecls}

Setups ==
    {[schema |-> sc, engine |-> Fresh] : sc \in CreateSchemas}
      \cup {[schema |-> sc, engine |-> e] : sc \in PlainSchemas, e \in {Mutex, Subcmd}}

Shapes == {"closed", "open"}

Alphabet ==
    {Flag("foo"), Flag("bar"), Flag("baz"), Word("a"), Word("b"), Word("1"), Word("Z")}

TokenSeqs == UNION {[1..n -> Alphabet] : n \in 0..MaxTokens}

\* Records handed to parse_typed_args directly.
RawValues ==
    {NoneV, BoolV(TRUE), IntV(1), StrV("a"), ListV(<<StrV("a")>>), ListV(<<StrV("a"), IntV(1)>>)}

RawRecords ==
    UNION {[D -> RawValues] : D \in SUBSET {"foo", "bar"}}
      \cup {Put(r, "baz", v) : r \in UNION {[D -> RawValues] : D \in SUBSET {"foo", "bar"}},
                               v \in {NoneV, StrV("a")}}

NoArgs == [given |-> FALSE, rec |-> EmptyRec]

NoParser == [built |-> "no", eng |-> Fresh]

NoOut == [done |-> FALSE, via |-> "", raw |-> EmptyRec, ok |-> FALSE, err |-> "", res |-> EmptyRec]

Done(via, raw, o) ==
    [done |-> TRUE, via |-> via, raw |-> raw, ok |-> o.ok, err |-> o.err, res |-> o.res]

(***************************************************************************)
(* State: the schema class and its shape, the engine the caller built      *)
(* (Fresh when create_parser makes its own), the tokens or the record at   *)
(* hand, and per mode (strict TRUE/FALSE) the parser built and the outcome *)
(* of its call.                                                            *)
(***************************************************************************)
Init ==
    /\ \E su \in Setups : schema = su.schema /\ engine = su.engine
    /\ shape \in Shapes
    /\ inputs \in TokenSeqs
    /\ args = NoArgs
    /\ parser = [s \in BOOLEAN |-> NoParser]
    /\ out = [s \in BOOLEAN |-> NoOut]

InitTyped ==
    /\ schema \in CreateSchemas \cup PlainSchemas
    /\ engine = Fresh
    /\ shape \in Shapes
    /\ inputs = <<>>
    /\ args \in {[given |-> TRUE, rec |-> r] : r \in RawRecords}
    /\ parser = [s \in BOOLEAN |-> NoParser]
    /\ out = [s \in BOOLEAN |-> NoOut]

Built(b) == [built |-> IF b.ok THEN "yes" ELSE "error", eng |-> b.eng]

\* TypedParser.create_parser(schema_class, strict=s)
CreateParser(s) ==
    /\ ~args.given
    /\ engine = Fresh
    /\ parser[s].built = "no"
    /\ parser' = [parser EXCEPT ![s] = Built(AddArguments(Fresh, schema))]
    /\ UNCHANGED <<schema, shape, engine, inputs, args, out>>

\* TypedParser.from_parser(engine, schema_class, strict=s)
FromParser(s) ==
    /\ ~args.given
    /\ engine # Fresh
    /\ parser[s].built = "no"
    /\ parser' = [parser EXCEPT ![s] = Built(AddArguments(engine, schema))]
    /\ UNCHANGED <<schema, shape, engine, inputs, args, out>>

\* parser.parse_args(inputs) on the parser of mode s
ParseArgs(s) ==
    /\ parser[s].built = "yes"
    /\ ~out[s].done
    /\ \E o \in parse_args(parser[s].eng, inputs, schema, s, shape) :
          out' = [out EXCEPT ![s] =
                    Done("parse_args",
                         IF EngineParse(parser[s].eng, inputs).ok
                         THEN EngineParse(parser[s].eng, inputs).rec ELSE EmptyRec,
                         o)]
    /\ UNCHANGED <<schema, shape, engine, inputs, args, parser>>

\* parse_typed_args(args, schema_class, strict=s)
ParseTypedArgs(s) ==
    /\ args.given
    /\ ~out[s].done
    /\ \E o \in parse_typed_args(args.rec, schema, s, shape) :
          out' = [out EXCEPT ![s] = Done("parse_typed_args", args.rec, o)]
    /\ UNCHANGED <<schema, shape, engine, inputs, args, parser>>

Next ==
    \E s \in BOOLEAN :
        \/ CreateParser(s)
        \/ FromParser(s)
        \/ ParseArgs(s)
        \/ ParseTypedArgs(s)

Spec == (Init \/ InitTyped) /\ [][Next]_vars

(***************************************************************************)
(* Vocabulary of the properties.                                           *)
(***************************************************************************)
Fields == {schema[j] : j \in 1..Len(schema)}

\* The call of mode s was made and the engine accepted the tokens.
Ran(s) == out[s].done /\ out[s].err # "SystemExit"

Typed(f) == f.type.kind # "untyped"

Bare(f) == Typed(f) /\ ~f.type.opt

Present(f, s) == f.name \in DOMAIN out[s].raw

\* The runtime kind differs from the declared one, read as kind equality.
Differs(v, t) ==
    IF t.seq THEN v.k # "list" \/ \E j \in 1..Len(v.items) : v.items[j].k # t.kind
    ELSE v.k # t.kind

\* The runtime kind fits the declared one, a bool counting as an int.
KindFits(vk, tk) == vk = tk \/ (vk = "bool" /\ tk = "int")

Fits(v, t) ==
    IF t.seq THEN v.k = "list" /\ \A j \in 1..Len(v.items) : KindFits(v.items[j].k, t.kind)
    ELSE KindFits(v.k, t.kind)

\* Field f is there with a value of its declared type.
FieldFits(f, s) ==
    /\ Typed(f)
    /\ Present(f, s)
    /\ IF out[s].raw[f.name] = NoneV THEN f.type.opt ELSE Fits(out[s].raw[f.name], f.type)

\* Field f gives mode s nothing to object to: it fits, or it shows one of
\* the conditions only the strict mode objects to, or it is an absent
\* Optional field whose default is None.
Tolerable(f, s) ==
    IF ~Present(f, s) THEN ~s \/ (Typed(f) /\ f.type.opt /\ f.dflt.v = NoneV)
    ELSE IF ~Typed(f) THEN ~s
    ELSE IF out[s].raw[f.name] = NoneV THEN f.type.opt \/ ~s
    ELSE Fits(out[s].raw[f.name], f.type)

NoExtras(s) == DOMAIN out[s].raw \subseteq {f.name : f \in Fields}

\* The call of mode s failed and returned no instance; its error is of the
\* given kind when the record shows no condition that raises another kind
\* (an entry that is no declared field, a field absent in strict mode).
Fails(s, kind) ==
    /\ ~out[s].ok
    /\ out[s].res = EmptyRec
    /\ (NoExtras(s) /\ \A g \in Fields : Present(g, s) \/ Tolerable(g, s)) => out[s].err = kind

(***************************************************************************)
(* C1                                                                      *)
(***************************************************************************)
C1_Scope ==
    /\ Ran(TRUE) /\ Ran(FALSE)
    /\ out[TRUE].via = "parse_args" /\ out[FALSE].via = "parse_args"
    /\ \A f \in Fields : Typed(f) /\ Present(f, TRUE) /\ Present(f, FALSE)

\* C1 as stated, for parsers built by create_parser: every field annotated
\* and produced by the engine, valid tokens: the strict and the non-strict
\* parse_args both succeed and their results are equal field by field.
C1_Original ==
    (C1_Scope /\ engine = Fresh) => out[TRUE].ok /\ out[FALSE].ok /\ out[TRUE].res = out[FALSE].res

\* C1 amended: every field annotated and produced by the engine, and the
\* engine's record holds exactly the declared fields, each with a value
\* that fits its declared type (None only where Optional is declared):
\* the strict and the non-strict parse_args both succeed and their results
\* are equal field by field.
C1_StrictEqualsNonStrict ==
    (C1_Scope /\ NoExtras(TRUE) /\ NoExtras(FALSE)
       /\ \A f \in Fields : FieldFits(f, TRUE) /\ FieldFits(f, FALSE))
    => /\ out[TRUE].ok /\ out[FALSE].ok
       /\ DOMAIN out[TRUE].res = DOMAIN out[FALSE].res
       /\ \A n \in DOMAIN out[TRUE].res : out[TRUE].res[n] = out[FALSE].res[n]
       /\ \A f \in Fields : out[TRUE].res[f.name] = out[TRUE].raw[f.name]

C1_Witness ==
    /\ C1_Scope /\ NoExtras(TRUE)
    /\ \A f \in Fields : FieldFits(f, TRUE) /\ FieldFits(f, FALSE)
    /\ Len(schema) = 2 /\ Len(inputs) = 2
    /\ \E f \in Fields : out[TRUE].raw[f.name].k = "bool" /\ f.type.kind = "int"
    /\ out[TRUE].ok /\ out[FALSE].ok

(***************************************************************************)
(* C2                                                                      *)
(***************************************************************************)
\* C2 as stated, in its strict half: a declared field whose value is not
\* None and whose runtime kind differs from the declared type makes the
\* call fail.
C2_Original ==
    \A s \in {TRUE} : Ran(s) =>
        \A f \in Fields :
            (Typed(f) /\ Present(f, s) /\ out[s].raw[f.name] # NoneV
               /\ Differs(out[s].raw[f.name], f.type))
            => ~out[s].ok

\* C2 amended: a declared field whose value is not None and does not fit
\* the declared type, a bool counting as fitting a declared int, makes the
\* call fail with a TypeError in strict and in non-strict mode, and no
\* result instance is returned.
C2_MismatchFails ==
    \A s \in BOOLEAN : Ran(s) =>
        \A f \in Fields :
            (Typed(f) /\ Present(f, s) /\ out[s].raw[f.name] # NoneV
               /\ ~Fits(out[s].raw[f.name], f.type))
            => Fails(s, "TypeError")

C2_Witness ==
    /\ Ran(FALSE) /\ Ran(TRUE)
    /\ \E f \in Fields :
          /\ f.type.opt /\ f.type.seq /\ Present(f, FALSE)
          /\ out[FALSE].raw[f.name].k = "list"
          /\ ~Fits(out[FALSE].raw[f.name], f.type)
    /\ out[FALSE].err = "TypeError" /\ out[TRUE].err = "TypeError"

(***************************************************************************)
(* C3                                                                      *)
(***************************************************************************)
\* C3 as stated: None for a field of bare (non-Optional) type makes the
\* reconciliation fail, in strict and in non-strict mode.
C3_Original ==
    \A s \in BOOLEAN : Ran(s) =>
        \A f \in Fields :
            (Bare(f) /\ Present(f, s) /\ out[s].raw[f.name] = NoneV) => ~out[s].ok

\* C3 amended: None for a field of bare (non-Optional) type makes the
\* reconciliation fail with a TypeError in strict mode; in non-strict mode
\* it raises nothing and the result keeps None in the field.
C3_NoneForBare ==
    \A s \in BOOLEAN : Ran(s) =>
        \A f \in Fields :
            (Bare(f) /\ Present(f, s) /\ out[s].raw[f.name] = NoneV)
            => IF s THEN Fails(s, "TypeError")
               ELSE /\ out[s].ok => out[s].res[f.name] = NoneV
                    /\ (NoExtras(s) /\ \A g \in Fields : Tolerable(g, s)) => out[s].ok

C3_Witness ==
    /\ Ran(TRUE) /\ Ran(FALSE)
    /\ \E f \in Fields :
          /\ Bare(f) /\ Present(f, TRUE) /\ out[TRUE].raw[f.name] = NoneV
          /\ Present(f, FALSE) /\ out[FALSE].raw[f.name] = NoneV
          /\ out[FALSE].ok /\ out[FALSE].res[f.name] = NoneV
    /\ out[TRUE].err = "TypeError"

(***************************************************************************)
(* C4                                                                      *)
(***************************************************************************)
\* A field declared with default None and a non-Optional type.
NoneDefaulted(f) == Bare(f) /\ f.dflt.v = NoneV

\* C4 as stated, for a field the engine has a slot for: a field with
\* default None and a non-Optional declared type makes the strict
\* parse_args raise a TypeError for every token sequence, also one that
\* gives the field a value of the declared type.
C4_Original ==
    (Ran(TRUE) /\ out[TRUE].via = "parse_args"
       /\ \E f \in Fields : NoneDefaulted(f) /\ Present(f, TRUE))
    => ~out[TRUE].ok

\* C4 amended: a field with default None and a non-Optional declared type
\* makes the strict parse_args raise a TypeError for every token sequence
\* that leaves None in the field (the empty sequence, when the field's slot
\* defaults to None); given a value of the declared type the field raises
\* nothing and holds the value; in non-strict mode parse_args with the
\* field omitted returns a result whose field is None.
C4_NoneDefault ==
    \A f \in Fields : NoneDefaulted(f) =>
        /\ (Ran(TRUE) /\ out[TRUE].via = "parse_args" /\ Present(f, TRUE))
           => IF out[TRUE].raw[f.name] = NoneV THEN Fails(TRUE, "TypeError")
              ELSE (NoExtras(TRUE) /\ \A g \in Fields : Tolerable(g, TRUE))
                   => out[TRUE].ok /\ out[TRUE].res[f.name] = out[TRUE].raw[f.name]
        /\ (Ran(FALSE) /\ out[FALSE].via = "parse_args"
              /\ (Present(f, FALSE) => out[FALSE].raw[f.name] = NoneV))
           => /\ out[FALSE].ok => out[FALSE].res[f.name] = NoneV
              /\ (NoExtras(FALSE) /\ \A g \in Fields : Tolerable(g, FALSE)) => out[FALSE].ok

\* The strict parse of a value given to such a field succeeds.
C4_Witness ==
    /\ Ran(TRUE) /\ out[TRUE].via = "parse_args" /\ inputs # <<>>
    /\ \E f \in Fields :
          /\ NoneDefaulted(f) /\ f.dflt.arg /\ Present(f, TRUE)
          /\ out[TRUE].raw[f.name] # NoneV
          /\ out[TRUE].ok /\ out[TRUE].res[f.name] = out[TRUE].raw[f.name]

(***************************************************************************)
(* C5                                                                      *)
(***************************************************************************)
\* C5: a field with no annotation for which the engine produces a value
\* makes the strict reconciliation fail with a TypeError; the non-strict
\* reconciliation of the same record succeeds (the other fields being as a
\* fully annotated schema accepts them) and stores the raw value unchanged.
C5_Untyped ==
    \A s \in BOOLEAN : Ran(s) =>
        \A f \in Fields :
            (~Typed(f) /\ Present(f, s))
            => IF s THEN Fails(s, "TypeError")
               ELSE (NoExtras(s) /\ \A g \in Fields \ {f} : FieldFits(g, s))
                    => out[s].ok /\ out[s].res[f.name] = out[s].raw[f.name]

C5_Witness ==
    /\ Ran(TRUE) /\ Ran(FALSE) /\ Len(schema) = 2
    /\ \E f \in Fields :
          /\ ~Typed(f) /\ Present(f, TRUE) /\ Present(f, FALSE)
          /\ out[FALSE].raw = out[TRUE].raw
          /\ \A g \in Fields \ {f} : FieldFits(g, FALSE)
          /\ out[FALSE].ok /\ out[FALSE].res[f.name] = StrV("a")
    /\ out[TRUE].err = "TypeError"

(***************************************************************************)
(* C6                                                                      *)
(***************************************************************************)
\* C6 as stated, for an Optional field whose default is None: in strict
\* mode a declared field absent from the record makes the reconciliation
\* fail.
C6_Original ==
    (Ran(TRUE) /\ \E f \in Fields : ~Present(f, TRUE) /\ Typed(f) /\ f.type.opt /\ f.dflt.v = NoneV)
    => ~out[TRUE].ok

\* C6 amended: a declared field absent from the record raises no error, in
\* strict mode (an Optional field whose default is None) as in non-strict
\* mode (any field): the record is accepted and the field is left at its
\* declared default.
C6_MissingKeepsDefault ==
    \A s \in BOOLEAN :
        (Ran(s) /\ NoExtras(s) /\ (\E f \in Fields : ~Present(f, s))
           /\ \A g \in Fields : Tolerable(g, s))
        => /\ out[s].ok
           /\ \A f \in Fields : ~Present(f, s) => out[s].res[f.name] = f.dflt.v

C6_Witness ==
    /\ Ran(TRUE) /\ out[TRUE].via = "parse_args" /\ engine = Subcmd
    /\ NoExtras(TRUE) /\ \A g \in Fields : Tolerable(g, TRUE)
    /\ \E f \in Fields : ~Present(f, TRUE) /\ out[TRUE].ok /\ out[TRUE].res[f.name] = NoneV

(***************************************************************************)
(* C7                                                                      *)
(***************************************************************************)
\* The schema class declares what the engine with subcommands produces:
\* foo, a bool; the subcommands' bar, an Optional int, and baz, an
\* Optional str.
C7_Scope ==
    /\ engine = Subcmd /\ Len(schema) = 3
    /\ schema[1].type \in {Prim("bool"), Prim("int"), Opt(Prim("int"))}
    /\ schema[2].type = Opt(Prim("int"))
    /\ schema[3].type = Opt(Prim("str"))

ExtraGiven(s) == out[s].done /\ out[s].via = "parse_typed_args" /\ ~NoExtras(s)

\* C8: in strict mode parse_typed_args on a record with an entry that is no
\* declared field fails, on a closed-shape class and on an open-shape one,
\* and the error is a KeyError (the declared fields raising nothing).
C8_StrictExtraKeyError ==
    ExtraGiven(TRUE)
    => /\ ~out[TRUE].ok
       /\ out[TRUE].res = EmptyRec
       /\ (\A g \in Fields : Tolerable(g, TRUE)) => out[TRUE].err = "KeyError"

C8_Witness ==
    /\ ExtraGiven(TRUE) /\ shape = "open"
    /\ \A g \in Fields : FieldFits(g, TRUE)
    /\ out[TRUE].err = "KeyError"

(***************************************************************************)
(* C9                                                                      *)
(***************************************************************************)
\* C9 as stated: in non-strict mode an entry that is no declared field
\* raises no error, on a closed-shape class and on an open-shape one, and
\* the result holds the declared fields' values.
C9_Original ==
    (ExtraGiven(FALSE) /\ \A g \in Fields : Tolerable(g, FALSE))
    => /\ out[FALSE].ok
       /\ \A f \in Fields : Present(f, FALSE) => out[FALSE].res[f.name] = out[FALSE].raw[f.name]

\* C9 amended: in non-strict mode an entry that is no declared field raises
\* no error on an open-shape class, and the result holds the declared
\* fields' values and the entry itself; on a closed-shape class the call
\* fails with an AttributeError.
C9_NonStrictExtra ==
    (ExtraGiven(FALSE) /\ \A g \in Fields : Tolerable(g, FALSE))
    => IF shape = "open"
       THEN /\ out[FALSE].ok
            /\ \A n \in DOMAIN out[FALSE].raw : out[FALSE].res[n] = out[FALSE].raw[n]
       ELSE ~out[FALSE].ok /\ out[FALSE].res = EmptyRec /\ out[FALSE].err = "AttributeError"

C9_Witness ==
    /\ ExtraGiven(FALSE) /\ shape = "open"
    /\ \A g \in Fields : FieldFits(g, FALSE)
    /\ out[FALSE].ok
    /\ "bar" \notin {f.name : f \in Fields} /\ out[FALSE].res["bar"] = BoolV(TRUE)

(***************************************************************************)
(* C10                                                                     *)
(***************************************************************************)
\* The number of fields with an Argument Descriptor among the first j.
ArgCount(j) == Cardinality({i \in 1..j : schema[i].dflt.arg})

\* The slot the parser of mode s registered for field j of the schema.
Registered(s, j) == parser[s].eng.slots[Len(engine.slots) + ArgCount(j)]

\* A field whose descriptor was built with an empty flag_names list.
Nameless(f) == f.dflt.arg /\ f.dflt.d.names = <<>>

\* C10 as stated: a descriptor built with an empty flag_names list is
\* registered as a positional slot whose destination is the field name.
C10_Original ==
    \A s \in BOOLEAN : parser[s].built = "yes" =>
        \A j \in 1..Len(schema) :
            Nameless(schema[j])
            => Registered(s, j).pos /\ Registered(s, j).dest = schema[j].name

\* C10 amended: a descriptor built with an empty flag_names list is
\* registered as the optional slot --<field name>, its destination the
\* field name (tokens "--<field name> a" put "a" into the field); it is
\* registered as positional only when a name without leading dashes is
\* supplied, and as optional when a flag form starting with dashes is.
C10_Registration ==
    \A s \in BOOLEAN : parser[s].built = "yes" =>
        \A j \in 1..Len(schema) :
            LET f == schema[j]
                names == f.dflt.d.names
                slot == Registered(s, j)
            IN f.dflt.arg =>
                /\ names = <<>>
                   => /\ ~slot.pos /\ slot.flag = Flag(f.name) /\ slot.dest = f.name
                      /\ (Ran(s) /\ Len(inputs) = 2 /\ inputs[1] = Flag(f.name)
                            /\ inputs[2] = Word("a") /\ f.dflt.d.nargs = "")
                         => out[s].raw[f.name] = StrV("a")
                /\ (names # <<>> /\ names[1].d = 0) => slot.pos
                /\ (names # <<>> /\ names[1].d > 0) => ~slot.pos /\ slot.flag = names[1]
                /\ slot.pos => names # <<>> /\ names[1].d = 0

C10_Witness ==
    /\ parser[TRUE].built = "yes"
    /\ Nameless(schema[1]) /\ ~Registered(TRUE, 1).pos
    /\ inputs = <<Flag("foo"), Word("a")>>
    /\ Ran(TRUE) /\ out[TRUE].ok /\ out[TRUE].res["foo"] = StrV("a")

====
